---- MODULE Spec2Model ----
(***************************************************************************)
(* Flamenco job manager (src/flamenco/jobs/__init__.py): the job/task      *)
(* status state machine.  One job and its tasks are modelled.  The pure    *)
(* part of every handler is an operator over the job document and the      *)
(* task collection; the actions apply these operators to the state.        *)
(***************************************************************************)
EXTENDS Integers, Sequences, FiniteSets, TLC

VARIABLES
    job,        \* the job document: status, status_reason, pre_archive_status
    tasks,      \* the task collection of the job: id -> [status, failed_by_workers]
    lastOp,     \* history: the last operation that ran, [op, arg, error]
    chain,      \* history: the statuses written to the job by the last operation
    pending,    \* history: new_status left when the cascade loop of lastOp stopped
    archival,   \* number of archival requests handed to the asynchronous runner
    completed_writes,   \* history: writes of status "completed" to the job
    procs,      \* concurrent invocations: slot -> local state of the call
    archive_call,   \* archive_job taken step by step: [pc, job_status]
    priority,       \* jobs collection, priority columns: job -> [priority, stamp]
    task_priority,  \* tasks collection, priority columns: task -> [job, job_priority, stamp]
    prio_calls,     \* concurrent api_set_job_priority calls: slot -> local state
    settings,       \* the job document's settings: key -> value
    manager,        \* one Manager: [owners, projects, user_groups] and its tokens
    mngr_calls      \* concurrent ManagerManager calls: slot -> local state

vars == <<job, tasks, lastOp, chain, pending, archival, completed_writes, procs,
          archive_call, priority, task_priority, prio_calls, settings,
          manager, mngr_calls>>

-----------------------------------------------------------------------------
(* Bounds of the model *)

\* tasks of the job in the reachability specification Spec
NTasks == 2
\* tasks of the job in the specifications that start from any document state
NCallTasks == 3
\* iterations of the cascade loop after which the model stops following it
MaxHops == 6

-----------------------------------------------------------------------------
(* Status enumerations *)

JobStatuses ==
    {"under-construction", "queued", "active", "paused", "cancel-requested",
     "canceled", "fail-requested", "failed", "completed", "requeued",
     "archiving", "archived", "construction-failed"}

TaskStatuses ==
    {"queued", "claimed-by-manager", "active", "processing", "soft-failed",
     "cancel-requested", "canceled", "failed", "completed"}

\* a status the task-status handler does not know
UnknownTaskStatus == "paused"

EventStatuses == TaskStatuses \cup {UnknownTaskStatus}

ARCHIVE_JOB_STATES == {"archiving", "archived"}

TASK_FAIL_JOB_PERCENTAGE == 10

\* reason='' / extra_updates=None
None == ""

\* the reason a caller of api_set_job_status passes
UserReason == "user-reason"

\* f'Failing job {job_id} because {fail_count} of its {total_count} tasks ...'
FailMsg == "Failing job because tasks failed"

Reasons == {None, UserReason}

-----------------------------------------------------------------------------
(* Datastore helpers *)

\* current_flamenco.update_status('jobs', job_id, new_status, extra_updates=...)
update_status(j, new_status, extra_updates) ==
    [j EXCEPT !.status = new_status,
              !.status_reason = IF extra_updates = None THEN @ ELSE extra_updates]

\* current_flamenco.update_status_q('tasks', {'job': job_id, 'status': <in statuses>},
\*                                  new_status, extra_unset=...)
update_status_q(ts, statuses, new_status, unset_failed_by_workers) ==
    [tasks |->
        [t \in DOMAIN ts |->
            IF ts[t].status \in statuses
            THEN [status |-> new_status,
                  failed_by_workers |->
                      IF unset_failed_by_workers THEN FALSE
                      ELSE ts[t].failed_by_workers]
            ELSE ts[t]],
     modified_count |-> Cardinality({t \in DOMAIN ts : ts[t].status \in statuses})]

\* tasks_coll.distinct('status', {'job': job_id})
distinct_status(ts) == {ts[t].status : t \in DOMAIN ts}

\* tasks_coll.count_documents({'job': job_id, 'status': status})
count_documents(ts, statuses) ==
    Cardinality({t \in DOMAIN ts : ts[t].status \in statuses})

\* new_status.endswith('-requested')
endswith_requested(s) == s \in {"cancel-requested", "fail-requested"}

\* status.replace('-requested', 'ed')
replace_requested(s) ==
    IF s = "cancel-requested" THEN "canceled"
    ELSE IF s = "fail-requested" THEN "failed"
    ELSE s

-----------------------------------------------------------------------------
(* Top-down: job status change -> tasks *)

\* mutant: the queued tasks are not canceled
do_cancel_tasks_keeps_queued(ts, old_status, new_status) ==
    LET cancelreq_result ==
            update_status_q(ts, {"active", "claimed-by-manager", "soft-failed"},
                            "cancel-requested", FALSE)
    IN  [tasks |-> cancelreq_result.tasks,
         next |-> IF endswith_requested(new_status)
                     /\ cancelreq_result.modified_count = 0
                  THEN replace_requested(new_status)
                  ELSE ""]

\* mutant: the job always waits for the Managers, no direct transition
do_cancel_tasks_no_shortcut(ts, old_status, new_status) ==
    LET canceled == update_status_q(ts, {"queued"}, "canceled", FALSE)
        cancelreq_result ==
            update_status_q(canceled.tasks,
                            {"active", "claimed-by-manager", "soft-failed"},
                            "cancel-requested", FALSE)
    IN  [tasks |-> cancelreq_result.tasks, next |-> ""]

do_cancel_tasks(ts, old_status, new_status) ==
    LET canceled == update_status_q(ts, {"queued"}, "canceled", FALSE)
        cancelreq_result ==
            update_status_q(canceled.tasks,
                            {"active", "claimed-by-manager", "soft-failed"},
                            "cancel-requested", FALSE)
    IN  [tasks |-> cancelreq_result.tasks,
         next |-> IF endswith_requested(new_status)
                     /\ cancelreq_result.modified_count = 0
                  THEN replace_requested(new_status)
                  ELSE ""]

\* mutant: an under-construction job is requeued like any other
do_requeue_always(ts, old_status, new_status) ==
    LET query == IF old_status = "completed"
                 THEN TaskStatuses \ {"cancel-requested"}
                 ELSE TaskStatuses \ {"completed", "cancel-requested"}
    IN  [tasks |-> update_status_q(ts, query, "queued", TRUE).tasks,
         next |-> "queued"]

\* mutant: the two queries change places
do_requeue_swapped(ts, old_status, new_status) ==
    IF old_status = "under-construction"
    THEN [tasks |-> ts, next |-> ""]
    ELSE LET query == IF old_status = "completed"
                      THEN TaskStatuses \ {"completed", "cancel-requested"}
                      ELSE TaskStatuses \ {"cancel-requested"}
         IN  [tasks |-> update_status_q(ts, query, "queued", TRUE).tasks,
              next |-> "queued"]

\* mutant: the query does not exclude cancel-requested tasks
do_requeue_everything(ts, old_status, new_status) ==
    IF old_status = "under-construction"
    THEN [tasks |-> ts, next |-> ""]
    ELSE LET query == IF old_status = "completed"
                      THEN TaskStatuses
                      ELSE TaskStatuses \ {"completed"}
         IN  [tasks |-> update_status_q(ts, query, "queued", TRUE).tasks,
              next |-> "queued"]

do_requeue(ts, old_status, new_status) ==
    IF old_status = "under-construction"
    THEN [tasks |-> ts, next |-> ""]
    ELSE LET query == IF old_status = "completed"
                      THEN TaskStatuses \ {"cancel-requested"}
                      ELSE TaskStatuses \ {"completed", "cancel-requested"}
         IN  [tasks |-> update_status_q(ts, query, "queued", TRUE).tasks,
              next |-> "queued"]

\* mutant: a job found complete is requeued
do_check_completion_requeues(ts, new_status) ==
    IF count_documents(ts, {"completed"}) < count_documents(ts, TaskStatuses)
    THEN "" ELSE "requeued"

\* mutant: a job without tasks is never found complete
do_check_completion_needs_task(ts, new_status) ==
    LET total_tasks == count_documents(ts, TaskStatuses)
        completed_tasks == count_documents(ts, {"completed"})
    IN  IF completed_tasks < total_tasks \/ total_tasks = 0 THEN "" ELSE "completed"

do_check_completion(ts, new_status) ==
    LET total_tasks == count_documents(ts, TaskStatuses)
        completed_tasks == count_documents(ts, {"completed"})
    IN  IF completed_tasks < total_tasks THEN "" ELSE "completed"

handle_job_status_change(ts, old_status, new_status) ==
    IF new_status \in {"completed", "canceled"}
    THEN [tasks |-> ts, next |-> ""]
    ELSE IF new_status = "active"
    THEN [tasks |-> ts, next |-> ""]
    ELSE IF new_status \in {"cancel-requested", "failed", "fail-requested"}
    THEN do_cancel_tasks(ts, old_status, new_status)
    ELSE IF new_status = "requeued"
    THEN do_requeue(ts, old_status, new_status)
    ELSE IF new_status = "queued"
    THEN [tasks |-> ts, next |-> do_check_completion(ts, new_status)]
    ELSE [tasks |-> ts, next |-> ""]

\* the `while new_status:` loop of api_set_job_status; `written` collects the
\* statuses passed to update_status, `hops` counts the iterations left
RECURSIVE status_loop(_, _, _, _, _, _, _)
status_loop(j, ts, old_status, new_status, extra_updates, written, hops) ==
    IF new_status = "" \/ hops = 0
    THEN [job |-> j, tasks |-> ts, chain |-> written, next |-> new_status]
    ELSE LET result == update_status(j, new_status, extra_updates)
             handled == handle_job_status_change(ts, old_status, new_status)
         IN  status_loop(result, handled.tasks, new_status, handled.next, None,
                         Append(written, new_status), hops - 1)

\* mutant: the reason is not passed on to update_status
api_set_job_status_without_reason(j, ts, new_status, reason) ==
    status_loop(j, ts, j.status, new_status, None, <<>>, MaxHops)

api_set_job_status(j, ts, new_status, reason) ==
    LET old_status == j.status
        extra_updates == IF reason # "" THEN reason ELSE None
    IN  status_loop(j, ts, old_status, new_status, extra_updates, <<>>, MaxHops)

-----------------------------------------------------------------------------
(* Bottom-up: task status change -> job status *)

\* mutant: the test for a remaining cancel-requested task is inverted
cancel_requested_left(ts) == "cancel-requested" \in distinct_status(ts)

\* mutant: the remaining cancel-requested tasks are not looked at
cancel_requested_ignored(ts) == TRUE

\* 'cancel-requested' not in statuses
no_cancel_requested_left(ts) == "cancel-requested" \notin distinct_status(ts)

\* mutant: one completed task is enough
some_task_completed(ts) == "completed" \in distinct_status(ts)

\* statuses == ['completed']
all_tasks_completed(ts) == distinct_status(ts) = {"completed"}

\* a handler path that calls nothing
no_call(j, ts) == [job |-> j, tasks |-> ts, chain |-> <<>>, next |-> ""]

\* mutant: the job is set to the new status whatever its status is
job_status_then_b(j, ts, if_status, then_new_status) ==
    api_set_job_status(j, ts, then_new_status, "")

job_status_if_a_then_b(j, ts, if_status, then_new_status) ==
    IF j.status = if_status
    THEN api_set_job_status(j, ts, then_new_status, "")
    ELSE no_call(j, ts)

\* mutant: the boundary is excluded
fail_perc_exceeded(fail_count, total_count) ==
    fail_count * 100 > TASK_FAIL_JOB_PERCENTAGE * total_count

\* fail_perc >= TASK_FAIL_JOB_PERCENTAGE, with fail_perc = fail_count / float(total_count) * 100.
\* The float comparison agrees with the integer one for every count up to 200000.
fail_perc_reached(fail_count, total_count) ==
    fail_count * 100 >= TASK_FAIL_JOB_PERCENTAGE * total_count

\* mutant: processing and soft-failed tasks count as active
no_running_task(ts) ==
    distinct_status(ts) \cap {"active", "processing", "soft-failed"} = {}

\* 'active' not in statuses
no_active_task(ts) == "active" \notin distinct_status(ts)

\* mutant: a cancellation is taken as requested whatever the job status is
cancellation_assumed(job_status) == TRUE

\* job_status in {'cancel-requested', 'fail-requested'}
cancellation_requested(job_status) ==
    job_status \in {"cancel-requested", "fail-requested"}

\* mutant: only an active job is left as it is
becomes_active_unless_active(job_status) == job_status # "active"

\* job['status'] not in {'active', 'fail-requested', 'cancel-requested'}
becomes_active(job_status) ==
    job_status \notin {"active", "fail-requested", "cancel-requested"}

update_job_after_task_status_change(j, ts, new_task_status) ==
    IF new_task_status = "queued"
    THEN job_status_if_a_then_b(j, ts, "completed", "queued")
    ELSE IF new_task_status = "claimed-by-manager"
    THEN IF no_active_task(ts)
         THEN job_status_if_a_then_b(j, ts, "active", "queued")
         ELSE no_call(j, ts)
    ELSE IF new_task_status \in {"cancel-requested", "claimed-by-manager"}
    THEN no_call(j, ts)
    ELSE IF new_task_status = "canceled"
    THEN IF cancellation_requested(j.status)
            /\ no_cancel_requested_left(ts)
         THEN api_set_job_status(j, ts, replace_requested(j.status), "")
         ELSE no_call(j, ts)
    ELSE IF new_task_status = "failed"
    THEN LET total_count == count_documents(ts, TaskStatuses)
             fail_count == count_documents(ts, {"failed"})
         IN  IF fail_perc_reached(fail_count, total_count)
             THEN api_set_job_status(j, ts, "failed", FailMsg)
             ELSE job_status_if_a_then_b(j, ts, "queued", "active")
    ELSE IF new_task_status \in {"active", "processing", "soft-failed"}
    THEN IF becomes_active(j.status)
         THEN api_set_job_status(j, ts, "active", "")
         ELSE no_call(j, ts)
    ELSE IF new_task_status = "completed"
    THEN IF all_tasks_completed(ts)
         THEN api_set_job_status(j, ts, "completed", "")
         ELSE job_status_if_a_then_b(j, ts, "queued", "active")
    ELSE no_call(j, ts)


-----------------------------------------------------------------------------
(* Archival *)

\* mutant: only an archived job is refused
archive_refused_when_archived(job_status) == job_status = "archived"

\* job_status in ARCHIVE_JOB_STATES
archive_refused(job_status) == job_status \in ARCHIVE_JOB_STATES

\* mutant: the status after the transition is recorded
record_new_status(j, job_status) == [j EXCEPT !.pre_archive_status = "archiving"]

\* jobs_coll.update_one({'_id': job_id}, {'$set': {'pre_archive_status': job_status}})
record_pre_archive_status(j, job_status) ==
    [j EXCEPT !.pre_archive_status = job_status]

-----------------------------------------------------------------------------
(* Initial states *)

\* api_create_job: the job document as created
NewJob ==
    [status |-> "under-construction", status_reason |-> "", pre_archive_status |-> ""]

\* a task as the compiler creates it
NewTask == [status |-> "queued", failed_by_workers |-> FALSE]

NoOp == [op |-> "none", arg |-> "", error |-> FALSE]

\* no archive_job call is in progress
NoArchiveCall == [pc |-> "idle", job_status |-> ""]

\* the state the operations on the status of one job never touch
Elsewhere ==
    <<archive_call, priority, task_priority, prio_calls, settings, manager, mngr_calls>>

HistoryInit ==
    /\ lastOp = NoOp
    /\ chain = <<>>
    /\ pending = ""
    /\ archival = 0
    /\ completed_writes = 0
    /\ procs = <<>>
    /\ archive_call = NoArchiveCall
    /\ priority = <<>>
    /\ task_priority = <<>>
    /\ prio_calls = <<>>
    /\ settings = <<>>
    /\ manager = <<>>
    /\ mngr_calls = <<>>

\* the job right after construction: under-construction, every task queued
Init ==
    /\ job = NewJob
    /\ tasks = [t \in 1..NTasks |-> NewTask]
    /\ HistoryInit

\* any job document with n tasks in the given statuses
AnyJob(n, statuses, markers) ==
    /\ job \in [status : JobStatuses, status_reason : {""}, pre_archive_status : {""}]
    /\ tasks \in [1..n -> [status : statuses, failed_by_workers : markers]]
    /\ HistoryInit

-----------------------------------------------------------------------------
(* Operations, each call atomic *)

\* what the operations on one job leave alone
Untouched == UNCHANGED <<archival, completed_writes, procs, Elsewhere>>

Called(op, arg) == [op |-> op, arg |-> arg, error |-> FALSE]

\* JobManager.api_set_job_status(job_id, new_status, reason=reason)
SetJobStatus(new_status, reason) ==
    \E r \in {api_set_job_status(job, tasks, new_status, reason)} :
        /\ job' = r.job
        /\ tasks' = r.tasks
        /\ chain' = r.chain
        /\ pending' = r.next
        /\ lastOp' = Called("SetJobStatus", new_status)
        /\ Untouched

\* JobManager.update_job_after_task_status_change(job_id, task_id, new_task_status);
\* task_id is only logged
OnTaskStatusChanged(new_task_status) ==
    \E r \in {update_job_after_task_status_change(job, tasks, new_task_status)} :
        /\ job' = r.job
        /\ tasks' = r.tasks
        /\ chain' = r.chain
        /\ pending' = r.next
        /\ lastOp' = Called("OnTaskStatusChanged", new_task_status)
        /\ Untouched

\* the statuses a Manager reports; "cancel-requested" is set by the Server only
ReportedStatuses == TaskStatuses \ {"cancel-requested"}

\* a Manager reports a new status of one task: the write that precedes the event
TaskReport(task_id, new_task_status) ==
    /\ tasks[task_id].status # new_task_status
    /\ tasks' = [tasks EXCEPT ![task_id].status = new_task_status]
    /\ chain' = <<>>
    /\ pending' = ""
    /\ lastOp' = Called("TaskReport", "")
    /\ UNCHANGED job
    /\ Untouched

Next ==
    \/ \E s \in JobStatuses : SetJobStatus(s, None)
    \/ \E s \in EventStatuses : OnTaskStatusChanged(s)
    \/ \E t \in DOMAIN tasks, s \in ReportedStatuses : TaskReport(t, s)

Spec == Init /\ [][Next]_vars

-----------------------------------------------------------------------------
(* Cancellation requests from any job state *)

InitCancel == AnyJob(NCallTasks, TaskStatuses, {FALSE})

NextCancel ==
    \E s \in {"cancel-requested", "fail-requested", "failed"}, r \in Reasons :
        SetJobStatus(s, r)

SpecCancel == InitCancel /\ [][NextCancel]_vars

-----------------------------------------------------------------------------
(* Requeue from any job state *)

InitRequeue == AnyJob(NTasks, TaskStatuses, BOOLEAN)

NextRequeue == \E r \in Reasons : SetJobStatus("requeued", r)

SpecRequeue == InitRequeue /\ [][NextRequeue]_vars

-----------------------------------------------------------------------------
(* The job becomes queued, from any job state, jobs without tasks included *)

InitQueued == \E n \in 0..NCallTasks : AnyJob(n, TaskStatuses, {FALSE})

NextQueued ==
    \/ \E s \in {"queued", "requeued"}, r \in Reasons : SetJobStatus(s, r)
    \/ OnTaskStatusChanged("queued")

SpecQueued == InitQueued /\ [][NextQueued]_vars

-----------------------------------------------------------------------------
(* Failure threshold: jobs of 1..MaxFailTasks tasks, some of them failed *)

MaxFailTasks == 11

InitFail ==
    /\ job \in [status : JobStatuses, status_reason : {""}, pre_archive_status : {""}]
    /\ \E n \in 1..MaxFailTasks, k \in 0..MaxFailTasks, s \in {"queued", "active", "completed"} :
        /\ k <= n
        /\ tasks = [t \in 1..n |->
                      [status |-> IF t <= k THEN "failed" ELSE s,
                       failed_by_workers |-> FALSE]]
    /\ HistoryInit

NextFail == OnTaskStatusChanged("failed")

SpecFail == InitFail /\ [][NextFail]_vars

-----------------------------------------------------------------------------
(* Convergence: the tasks of a job are completed one after the other *)

InitConv == AnyJob(NCallTasks, TaskStatuses \ {"completed"}, {FALSE})

\* occurrences of "completed" among the statuses written to the job
CompletedIn(written) ==
    Cardinality({i \in DOMAIN written : written[i] = "completed"})

\* a task is moved to "completed" and its event is delivered
CompleteTask(task_id) ==
    /\ tasks[task_id].status # "completed"
    /\ \E r \in {update_job_after_task_status_change(
                    job, [tasks EXCEPT ![task_id].status = "completed"], "completed")} :
        /\ job' = r.job
        /\ tasks' = r.tasks
        /\ chain' = r.chain
        /\ pending' = r.next
        /\ completed_writes' = completed_writes + CompletedIn(r.chain)
    /\ lastOp' = Called("CompleteTask", "completed")
    /\ UNCHANGED <<archival, procs, Elsewhere>>

NextConv == \E t \in DOMAIN tasks : CompleteTask(t)

SpecConv == InitConv /\ [][NextConv]_vars

-----------------------------------------------------------------------------
(* Task reports with their events: every state is between two calls *)

\* what a Manager reports for a task: a task it was asked to cancel ends
\* canceled, or completed or failed when the request came too late
reported_for(task_status) ==
    IF task_status = "cancel-requested"
    THEN {"canceled", "completed", "failed"}
    ELSE ReportedStatuses \ {task_status}

\* a Manager reports a new status of one task; the status is written and
\* update_job_after_task_status_change runs on the result
ReportTask(task_id, new_task_status) ==
    /\ new_task_status \in reported_for(tasks[task_id].status)
    /\ \E r \in {update_job_after_task_status_change(
                    job, [tasks EXCEPT ![task_id].status = new_task_status],
                    new_task_status)} :
        /\ job' = r.job
        /\ tasks' = r.tasks
        /\ chain' = r.chain
        /\ pending' = r.next
    /\ lastOp' = Called("ReportTask", new_task_status)
    /\ Untouched

NextReport ==
    \/ \E s \in JobStatuses : SetJobStatus(s, None)
    \/ \E t \in DOMAIN tasks, s \in ReportedStatuses : ReportTask(t, s)

SpecReport == Init /\ [][NextReport]_vars

-----------------------------------------------------------------------------
(* One task-status event on any job and any tasks *)

InitEvent == AnyJob(NTasks, TaskStatuses, {FALSE})

NextEvent == \E s \in EventStatuses : OnTaskStatusChanged(s)

SpecEvent == InitEvent /\ [][NextEvent]_vars

-----------------------------------------------------------------------------
(* api_set_job_status with and without a reason, on a job that has a reason *)

OldReason == "old-reason"

InitReason ==
    /\ job \in [status : JobStatuses, status_reason : {"", OldReason},
                pre_archive_status : {""}]
    /\ tasks \in [1..NTasks -> [status : TaskStatuses, failed_by_workers : {FALSE}]]
    /\ HistoryInit

\* JobManager.api_set_job_status(job_id, new_status, reason=reason)
SetJobStatusReason(new_status, reason) ==
    /\ \E r \in {api_set_job_status(job, tasks, new_status, reason)} :
        /\ job' = r.job
        /\ tasks' = r.tasks
        /\ chain' = r.chain
        /\ pending' = r.next
    /\ lastOp' = Called("SetJobStatus", <<new_status, reason>>)
    /\ Untouched

NextReason ==
    \E s \in JobStatuses, r \in Reasons : SetJobStatusReason(s, r)

SpecReason == InitReason /\ [][NextReason]_vars

-----------------------------------------------------------------------------
(* Repeated delivery of a task-status event *)

InitIdem == AnyJob(NTasks, TaskStatuses, {FALSE})

\* first delivery of the event
Deliver(new_task_status) ==
    /\ lastOp.op = "none"
    /\ OnTaskStatusChanged(new_task_status)

\* the same event delivered again; nothing changed in between
Redeliver ==
    /\ lastOp.op \in {"OnTaskStatusChanged", "Redelivery"}
    /\ \E r \in {update_job_after_task_status_change(job, tasks, lastOp.arg)} :
        /\ job' = r.job
        /\ tasks' = r.tasks
        /\ chain' = r.chain
        /\ pending' = r.next
    /\ lastOp' = Called("Redelivery", lastOp.arg)
    /\ Untouched

NextIdem ==
    \/ \E s \in EventStatuses : Deliver(s)
    \/ Redeliver

SpecIdem == InitIdem /\ [][NextIdem]_vars

-----------------------------------------------------------------------------
(* Archival from any job state *)

\* archival requests the model lets wait in the runner's queue
MaxArchival == 2

InitArchive == AnyJob(NTasks, TaskStatuses, {FALSE})

\* JobManager.archive_job(job)
ArchiveJob ==
    IF archive_refused(job.status)
    THEN /\ lastOp' = [op |-> "ArchiveJob", arg |-> "", error |-> TRUE]
         /\ chain' = <<>>
         /\ pending' = ""
         /\ UNCHANGED <<job, tasks, archival, completed_writes, procs, Elsewhere>>
    ELSE /\ archival < MaxArchival
         /\ \E r \in {api_set_job_status(
                        record_pre_archive_status(job, job.status),
                        tasks, "archiving", "")} :
             /\ job' = r.job
             /\ tasks' = r.tasks
             /\ chain' = r.chain
             /\ pending' = r.next
         /\ archival' = archival + 1
         /\ lastOp' = Called("ArchiveJob", "")
         /\ UNCHANGED <<completed_writes, procs, Elsewhere>>

\* the asynchronous runner takes a request and ends with the job "archived"
RunArchival ==
    /\ archival > 0
    /\ archival' = archival - 1
    /\ \E r \in {api_set_job_status(job, tasks, "archived", "")} :
        /\ job' = r.job
        /\ tasks' = r.tasks
        /\ chain' = r.chain
        /\ pending' = r.next
    /\ lastOp' = Called("RunArchival", "")
    /\ UNCHANGED <<completed_writes, procs, Elsewhere>>

NextArchive ==
    \/ ArchiveJob
    \/ RunArchival

SpecArchive == InitArchive /\ [][NextArchive]_vars

-----------------------------------------------------------------------------
(* Archival, archive_job taken one statement at a time *)

InitArchiveSteps == AnyJob(NTasks, TaskStatuses, {FALSE})

ArchiveUntouched ==
    UNCHANGED <<completed_writes, procs, priority, task_priority, prio_calls, settings,
                manager, mngr_calls>>

\* archive_job(job) is entered with the job document; job_status = job['status'],
\* and the call raises when the job is archiving or archived
ArchiveEnter ==
    /\ archive_call.pc = "idle"
    /\ IF archive_refused(job.status)
       THEN /\ lastOp' = [op |-> "ArchiveJob", arg |-> "", error |-> TRUE]
            /\ UNCHANGED archive_call
       ELSE /\ archival < MaxArchival
            /\ lastOp' = Called("ArchiveJob:enter", "")
            /\ archive_call' = [pc |-> "record", job_status |-> job.status]
    /\ chain' = <<>>
    /\ pending' = ""
    /\ UNCHANGED <<job, tasks, archival>>
    /\ ArchiveUntouched

\* jobs_coll.update_one(..., {'$set': {'pre_archive_status': job_status}})
ArchiveRecord ==
    /\ archive_call.pc = "record"
    /\ job' = record_pre_archive_status(job, archive_call.job_status)
    /\ archive_call' = [archive_call EXCEPT !.pc = "set_status"]
    /\ lastOp' = Called("ArchiveJob:update_one", "")
    /\ chain' = <<>>
    /\ pending' = ""
    /\ UNCHANGED <<tasks, archival>>
    /\ ArchiveUntouched

\* self.api_set_job_status(job_id, 'archiving')
ArchiveSetStatus ==
    /\ archive_call.pc = "set_status"
    /\ \E r \in {api_set_job_status(job, tasks, "archiving", "")} :
        /\ job' = r.job
        /\ tasks' = r.tasks
        /\ chain' = r.chain
        /\ pending' = r.next
    /\ archive_call' = [archive_call EXCEPT !.pc = "delay"]
    /\ lastOp' = Called("ArchiveJob:api_set_job_status", "")
    /\ UNCHANGED archival
    /\ ArchiveUntouched

\* job_archival.archive_job.delay(str(job_id)), and the call returns
ArchiveDelay ==
    /\ archive_call.pc = "delay"
    /\ archival' = archival + 1
    /\ archive_call' = [archive_call EXCEPT !.pc = "idle"]
    /\ lastOp' = Called("ArchiveJob", "")
    /\ chain' = <<>>
    /\ pending' = ""
    /\ UNCHANGED <<job, tasks>>
    /\ ArchiveUntouched

NextArchiveSteps ==
    \/ ArchiveEnter
    \/ ArchiveRecord
    \/ ArchiveSetStatus
    \/ ArchiveDelay
    \/ RunArchival

SpecArchiveSteps == InitArchiveSteps /\ [][NextArchiveSteps]_vars

-----------------------------------------------------------------------------
(* Concurrent invocations on the job: every datastore operation is one step *)

\* invocations that can be in flight at once
NProcs == 2

Returned == [pc |-> "idle", if_status |-> "", old_status |-> "", new_status |-> ""]

InitConc ==
    /\ job = NewJob
    /\ tasks = [t \in 1..NTasks |-> NewTask]
    /\ lastOp = NoOp
    /\ chain = <<>>
    /\ pending = ""
    /\ archival = 0
    /\ completed_writes = 0
    /\ procs = [p \in 1..NProcs |-> Returned]
    /\ archive_call = NoArchiveCall
    /\ priority = <<>>
    /\ task_priority = <<>>
    /\ prio_calls = <<>>
    /\ settings = <<>>
    /\ manager = <<>>
    /\ mngr_calls = <<>>

ConcUntouched ==
    UNCHANGED <<lastOp, chain, pending, archival, completed_writes, Elsewhere>>

\* a Manager writes the new status of a task and update_job_after_task_status_change
\* is entered for it
StartTaskEvent(p, task_id, new_task_status) ==
    /\ procs[p].pc = "idle"
    /\ tasks[task_id].status # new_task_status
    /\ tasks' = [tasks EXCEPT ![task_id].status = new_task_status]
    /\ procs' = [procs EXCEPT ![p] =
                    IF new_task_status = "completed"
                    THEN [Returned EXCEPT !.pc = "distinct"]
                    ELSE [Returned EXCEPT !.pc = "find_job",
                                          !.if_status = "completed",
                                          !.new_status = "queued"]]
    /\ UNCHANGED job
    /\ ConcUntouched

\* new_task_status == 'completed': statuses = tasks_coll.distinct('status', ...)
ReadDistinct(p) ==
    /\ procs[p].pc = "distinct"
    /\ procs' = [procs EXCEPT ![p] =
                    IF all_tasks_completed(tasks)
                    THEN [@ EXCEPT !.pc = "call", !.new_status = "completed"]
                    ELSE [@ EXCEPT !.pc = "find_job", !.if_status = "queued",
                                   !.new_status = "active"]]
    /\ UNCHANGED <<job, tasks>>
    /\ ConcUntouched

\* __job_status_if_a_then_b: job = jobs_coll.find_one(job_id, ...)
FindJob(p) ==
    /\ procs[p].pc = "find_job"
    /\ procs' = [procs EXCEPT ![p] =
                    IF job.status = procs[p].if_status
                    THEN [@ EXCEPT !.pc = "call"]
                    ELSE Returned]
    /\ UNCHANGED <<job, tasks>>
    /\ ConcUntouched

\* a caller enters api_set_job_status(job_id, new_status)
StartSetJobStatus(p, new_status) ==
    /\ procs[p].pc = "idle"
    /\ procs' = [procs EXCEPT ![p] = [Returned EXCEPT !.pc = "call",
                                                      !.new_status = new_status]]
    /\ UNCHANGED <<job, tasks>>
    /\ ConcUntouched

\* api_set_job_status: curr_job = jobs_coll.find_one(...); old_status = curr_job['status']
ReadOldStatus(p) ==
    /\ procs[p].pc = "call"
    /\ procs' = [procs EXCEPT ![p] = [@ EXCEPT !.pc = "write",
                                               !.old_status = job.status]]
    /\ UNCHANGED <<job, tasks>>
    /\ ConcUntouched

\* the loop: current_flamenco.update_status('jobs', job_id, new_status, ...)
WriteStatus(p) ==
    /\ procs[p].pc = "write"
    /\ job' = update_status(job, procs[p].new_status, None)
    /\ procs' = [procs EXCEPT ![p] = [@ EXCEPT !.pc = "handle"]]
    /\ UNCHANGED tasks
    /\ ConcUntouched

\* the loop: next_status = self.handle_job_status_change(job_id, old_status, new_status)
HandleChange(p) ==
    /\ procs[p].pc = "handle"
    /\ \E r \in {handle_job_status_change(tasks, procs[p].old_status,
                                          procs[p].new_status)} :
        /\ tasks' = r.tasks
        /\ procs' = [procs EXCEPT ![p] =
                        IF r.next = ""
                        THEN Returned
                        ELSE [@ EXCEPT !.pc = "write",
                                       !.old_status = procs[p].new_status,
                                       !.new_status = r.next]]
    /\ UNCHANGED job
    /\ ConcUntouched

NextConc ==
    \E p \in 1..NProcs :
        \/ \E t \in DOMAIN tasks, s \in {"completed", "queued"} : StartTaskEvent(p, t, s)
        \/ StartSetJobStatus(p, "requeued")
        \/ ReadDistinct(p)
        \/ FindJob(p)
        \/ ReadOldStatus(p)
        \/ WriteStatus(p)
        \/ HandleChange(p)

SpecConc == InitConc /\ [][NextConc]_vars

-----------------------------------------------------------------------------
(* Job priority: api_set_job_priority over several jobs and their tasks *)

\* jobs in the datastore
NJobs == 2

\* task documents in the datastore, each of one job
NPrioTasks == 3

\* distinct (_updated, _etag) values the model hands out
MaxStamps == 3

JobIds == 1..NJobs

Priorities == {0, 50, 100}

Max(S) == CHOOSE x \in S : \A y \in S : y <= x

\* the newest (_updated, _etag) in the datastore or drawn by a call in progress
newest_stamp(pr, tp, calls) ==
    Max({0} \cup {pr[j].stamp : j \in DOMAIN pr}
            \cup {tp[t].stamp : t \in DOMAIN tp}
            \cup {calls[p].now : p \in DOMAIN calls})

\* mutant: never take the early return
never_same_priority(old_priority, new_priority) == FALSE

\* if old_priority == new_priority: return
same_priority(old_priority, new_priority) == old_priority = new_priority

\* jobs_coll.update_one({'_id': job_id},
\*     {'$set': {'priority': new_priority, '_updated': now, '_etag': new_etag}})
update_one_priority(pr, job_id, new_priority, now) ==
    [pr EXCEPT ![job_id] = [priority |-> new_priority, stamp |-> now]]

\* mutant: update_many without the {'job': job_id} filter
update_many_all_tasks(tp, job_id, new_priority, now) ==
    [t \in DOMAIN tp |-> [tp[t] EXCEPT !.job_priority = new_priority, !.stamp = now]]

\* tasks_coll.update_many({'job': job_id},
\*     {'$set': {'job_priority': new_priority, '_updated': now, '_etag': new_etag}})
update_many_job_priority(tp, job_id, new_priority, now) ==
    [t \in DOMAIN tp |->
        IF tp[t].job = job_id
        THEN [tp[t] EXCEPT !.job_priority = new_priority, !.stamp = now]
        ELSE tp[t]]

\* JobManager.api_set_job_priority(job_id, new_priority), the call as a whole
api_set_job_priority(pr, tp, job_id, new_priority, now) ==
    IF same_priority(pr[job_id].priority, new_priority)
    THEN [priority |-> pr, task_priority |-> tp]
    ELSE [priority |-> update_one_priority(pr, job_id, new_priority, now),
          task_priority |-> update_many_job_priority(tp, job_id, new_priority, now)]

\* every job has a priority, every task belongs to a job and mirrors its priority
PriorityStore ==
    /\ priority \in [JobIds -> [priority : Priorities, stamp : {0}]]
    /\ \E owner \in [1..NPrioTasks -> JobIds] :
        task_priority = [t \in 1..NPrioTasks |->
                            [job |-> owner[t],
                             job_priority |-> priority[owner[t]].priority,
                             stamp |-> 0]]

InitPriority ==
    /\ job = NewJob
    /\ tasks = [t \in 1..NTasks |-> NewTask]
    /\ lastOp = NoOp
    /\ chain = <<>>
    /\ pending = ""
    /\ archival = 0
    /\ completed_writes = 0
    /\ procs = <<>>
    /\ archive_call = NoArchiveCall
    /\ prio_calls = <<>>
    /\ settings = <<>>
    /\ manager = <<>>
    /\ mngr_calls = <<>>
    /\ PriorityStore

PriorityUntouched ==
    UNCHANGED <<job, tasks, chain, pending, archival, completed_writes, procs,
                archive_call, settings, manager, mngr_calls>>

SetJobPriority(job_id, new_priority) ==
    /\ \E now \in {newest_stamp(priority, task_priority, prio_calls) + 1} :
        /\ same_priority(priority[job_id].priority, new_priority) \/ now <= MaxStamps
        /\ \E r \in {api_set_job_priority(priority, task_priority,
                                          job_id, new_priority, now)} :
            /\ priority' = r.priority
            /\ task_priority' = r.task_priority
    /\ lastOp' = Called("SetJobPriority", <<job_id, new_priority>>)
    /\ UNCHANGED prio_calls
    /\ PriorityUntouched

NextPriority == \E j \in JobIds, p \in Priorities : SetJobPriority(j, p)

SpecPriority == InitPriority /\ [][NextPriority]_vars

-----------------------------------------------------------------------------
(* Job priority under concurrency: every datastore operation is one step *)

NoPrioCall == [pc |-> "idle", job |-> 0, new_priority |-> 0, now |-> 0]

InitPrioConc ==
    /\ job = NewJob
    /\ tasks = [t \in 1..NTasks |-> NewTask]
    /\ lastOp = NoOp
    /\ chain = <<>>
    /\ pending = ""
    /\ archival = 0
    /\ completed_writes = 0
    /\ procs = <<>>
    /\ archive_call = NoArchiveCall
    /\ prio_calls = [p \in 1..NProcs |-> NoPrioCall]
    /\ settings = <<>>
    /\ manager = <<>>
    /\ mngr_calls = <<>>
    /\ PriorityStore

InFlight(calls) == Cardinality({p \in DOMAIN calls : calls[p].pc # "idle"})

\* api_set_job_priority(job_id, new_priority) is called
PrioStart(p, job_id, new_priority) ==
    /\ prio_calls[p].pc = "idle"
    /\ newest_stamp(priority, task_priority, prio_calls) + InFlight(prio_calls)
            < MaxStamps
    /\ prio_calls' = [prio_calls EXCEPT ![p] =
            [pc |-> "find", job |-> job_id, new_priority |-> new_priority, now |-> 0]]
    /\ lastOp' = Called("SetJobPriority:call", "")
    /\ UNCHANGED <<priority, task_priority>>
    /\ PriorityUntouched

\* curr_job = jobs_coll.find_one(...); early return when the priority is the same,
\* else new_etag = random_etag(); now = utcnow()
PrioFind(p) ==
    /\ prio_calls[p].pc = "find"
    /\ IF same_priority(priority[prio_calls[p].job].priority, prio_calls[p].new_priority)
       THEN /\ prio_calls' = [prio_calls EXCEPT ![p] = NoPrioCall]
            /\ lastOp' = Called("SetJobPriority", "")
       ELSE /\ prio_calls' = [prio_calls EXCEPT
                ![p].pc = "update_job",
                ![p].now = newest_stamp(priority, task_priority, prio_calls) + 1]
            /\ lastOp' = Called("SetJobPriority:find_one", "")
    /\ UNCHANGED <<priority, task_priority>>
    /\ PriorityUntouched

\* jobs_coll.update_one(...)
PrioUpdateJob(p) ==
    /\ prio_calls[p].pc = "update_job"
    /\ priority' = update_one_priority(priority, prio_calls[p].job,
                                       prio_calls[p].new_priority, prio_calls[p].now)
    /\ prio_calls' = [prio_calls EXCEPT ![p].pc = "update_tasks"]
    /\ lastOp' = Called("SetJobPriority:update_one", "")
    /\ UNCHANGED task_priority
    /\ PriorityUntouched

\* tasks_coll.update_many(...), and the call returns
PrioUpdateTasks(p) ==
    /\ prio_calls[p].pc = "update_tasks"
    /\ task_priority' = update_many_job_priority(task_priority, prio_calls[p].job,
                                       prio_calls[p].new_priority, prio_calls[p].now)
    /\ prio_calls' = [prio_calls EXCEPT ![p] = NoPrioCall]
    /\ lastOp' = Called("SetJobPriority", "")
    /\ UNCHANGED priority
    /\ PriorityUntouched

NextPrioConc ==
    \E p \in 1..NProcs :
        \/ \E j \in JobIds, np \in Priorities : PrioStart(p, j, np)
        \/ PrioFind(p)
        \/ PrioUpdateJob(p)
        \/ PrioUpdateTasks(p)

SpecPrioConc == InitPrioConc /\ [][NextPrioConc]_vars

-----------------------------------------------------------------------------
(* Job construction: api_construct_job and the job compiler *)

\* str(ex) of the exceptions the compiler raises
CompileErrors == {"unknown job type", "missing setting"}

\* f'{reason}; compilation failed: {ex}'
compilation_failed(reason, ex) ==
    CASE reason = "" /\ ex = "unknown job type"
            -> "; compilation failed: unknown job type"
      [] reason = "" /\ ex = "missing setting"
            -> "; compilation failed: missing setting"
      [] reason = UserReason /\ ex = "unknown job type"
            -> "user-reason; compilation failed: unknown job type"
      [] reason = UserReason /\ ex = "missing setting"
            -> "user-reason; compilation failed: missing setting"

\* job_settings.update(new_job_settings)
dict_update(d, u) ==
    [k \in DOMAIN d \cup DOMAIN u |-> IF k \in DOMAIN u THEN u[k] ELSE d[k]]

\* the settings a caller passes: none, or a value for one key
NewJobSettings ==
    {<<>>} \cup {[k \in {key} |-> "new"] : key \in {"frames", "chunk_size"}}

\* job_compilers.compile_job(job): the task documents it has created, each queued
compile_job(ts, created) == ts \o [t \in 1..created |-> NewTask]

\* mutant: the exception is swallowed and the job left as it is
compile_error_ignored(j, ts, reason, ex) ==
    [job |-> j, tasks |-> ts, chain |-> <<>>, next |-> ""]

\* except Exception as ex: api_set_job_status(job_id, 'construction-failed',
\*     reason=f'{reason}; compilation failed: {ex}')
on_compile_error(j, ts, reason, ex) ==
    api_set_job_status(j, ts, "construction-failed", compilation_failed(reason, ex))

\* JobManager.api_construct_job(job_id, new_job_settings, reason=reason);
\* `found` is whether find_one returns a job, `outcome` is "ok" or the str(ex)
\* of the exception compile_job raises after creating `created` tasks
api_construct_job(j, ts, st, found, new_job_settings, reason, outcome, created) ==
    IF ~found
    THEN [job |-> j, tasks |-> ts, settings |-> st, chain |-> <<>>, error |-> TRUE]
    ELSE LET job_settings == IF DOMAIN new_job_settings # {}
                             THEN dict_update(st, new_job_settings)
                             ELSE st
             constructing == api_set_job_status(j, ts, "under-construction", reason)
             compiled == compile_job(constructing.tasks, created)
         IN  IF outcome = "ok"
             THEN [job |-> constructing.job, tasks |-> compiled,
                   settings |-> job_settings, chain |-> constructing.chain,
                   error |-> FALSE]
             ELSE LET failed == on_compile_error(constructing.job, compiled,
                                                 reason, outcome)
                  IN  [job |-> failed.job, tasks |-> failed.tasks,
                       settings |-> job_settings,
                       chain |-> constructing.chain \o failed.chain,
                       error |-> FALSE]

\* the job api_create_job has posted: under-construction, no tasks yet
InitConstruct ==
    /\ job = NewJob
    /\ tasks = <<>>
    /\ lastOp = NoOp
    /\ chain = <<>>
    /\ pending = ""
    /\ archival = 0
    /\ completed_writes = 0
    /\ procs = <<>>
    /\ archive_call = NoArchiveCall
    /\ priority = <<>>
    /\ task_priority = <<>>
    /\ prio_calls = <<>>
    /\ settings = [k \in {"frames"} |-> "old"]
    /\ manager = <<>>
    /\ mngr_calls = <<>>

ConstructJob(found, new_job_settings, reason, outcome, created) ==
    /\ Len(tasks) + created <= NCallTasks
    /\ \E r \in {api_construct_job(job, tasks, settings, found, new_job_settings,
                                   reason, outcome, created)} :
        /\ job' = r.job
        /\ tasks' = r.tasks
        /\ settings' = r.settings
        /\ chain' = r.chain
        /\ lastOp' = [op |-> "ConstructJob", arg |-> <<found, reason, outcome>>,
                      error |-> r.error]
    /\ pending' = ""
    /\ UNCHANGED <<archival, completed_writes, procs, archive_call,
                   priority, task_priority, prio_calls, manager, mngr_calls>>

\* api_set_job_status between constructions: the job is started, cancelled, requeued
ConstructedJobStatus(new_status) ==
    /\ \E r \in {api_set_job_status(job, tasks, new_status, None)} :
        /\ job' = r.job
        /\ tasks' = r.tasks
        /\ chain' = r.chain
        /\ pending' = r.next
    /\ lastOp' = Called("SetJobStatus", <<new_status>>)
    /\ Untouched

NextConstruct ==
    \/ \E found \in BOOLEAN, new_job_settings \in NewJobSettings, reason \in Reasons,
          outcome \in {"ok"} \cup CompileErrors, created \in 0..NTasks :
            ConstructJob(found, new_job_settings, reason, outcome, created)
    \/ \E new_status \in {"active", "cancel-requested", "requeued"} :
            ConstructedJobStatus(new_status)

SpecConstruct == InitConstruct /\ [][NextConstruct]_vars

-----------------------------------------------------------------------------
(* Managers (src/flamenco/managers/__init__.py): sharing a Manager *)

\* users that can be put into or taken out of the owner group
NUsers == 3

Users == 1..NUsers

ManagerUntouched ==
    UNCHANGED <<job, tasks, chain, pending, archival, completed_writes, procs,
                archive_call, priority, task_priority, prio_calls, settings>>

\* the state of the job collections while the Manager operations run
NoJobActivity ==
    /\ job = NewJob
    /\ tasks = [t \in 1..NTasks |-> NewTask]
    /\ lastOp = NoOp
    /\ chain = <<>>
    /\ pending = ""
    /\ archival = 0
    /\ completed_writes = 0
    /\ procs = <<>>
    /\ archive_call = NoArchiveCall
    /\ priority = <<>>
    /\ task_priority = <<>>
    /\ prio_calls = <<>>
    /\ settings = <<>>

\* users_coll.count_documents({'groups': owner_gid})
count_owners(owners) == Cardinality(owners)

\* share_action == ShareAction.unshare and owner_count < 2
unshare_refused(share_action, owner_count) ==
    share_action = "unshare" /\ owner_count < 2

\* {ShareAction.share: '$addToSet', ShareAction.unshare: '$pull'}[share_action]
group_action_of(share_action) ==
    IF share_action = "share" THEN "$addToSet" ELSE "$pull"

\* users.user_group_action(subject_uid, owner_gid, group_action): one update of
\* the subject user's groups
user_group_action(owners, subject_uid, group_action) ==
    IF group_action = "$addToSet"
    THEN owners \cup {subject_uid}
    ELSE owners \ {subject_uid}

NoShareCall == [pc |-> "idle", share_action |-> "", subject_uid |-> 0]

\* a Manager that has owners; no share_unshare_manager call is running
InitShare ==
    /\ NoJobActivity
    /\ manager \in [owners : SUBSET Users \ {{}}, projects : {{}}, user_groups : {{}}]
    /\ mngr_calls = [p \in 1..NProcs |-> NoShareCall]

\* share_unshare_manager(manager_id, share_action, subject_uid) is called and
\* reads the Manager: owner_gid = manager['owner']
ShareStart(p, share_action, subject_uid) ==
    /\ mngr_calls[p].pc = "idle"
    /\ mngr_calls' = [mngr_calls EXCEPT ![p] =
            [pc |-> "count", share_action |-> share_action,
             subject_uid |-> subject_uid]]
    /\ lastOp' = Called("ShareUnshare:call", "")
    /\ UNCHANGED manager
    /\ ManagerUntouched

\* owner_count = users_coll.count_documents(...); the ownerless check
ShareCount(p) ==
    /\ mngr_calls[p].pc = "count"
    /\ IF unshare_refused(mngr_calls[p].share_action, count_owners(manager.owners))
       THEN /\ mngr_calls' = [mngr_calls EXCEPT ![p] = NoShareCall]
            /\ lastOp' = [op |-> "ShareUnshare", arg |-> "", error |-> TRUE]
       ELSE /\ mngr_calls' = [mngr_calls EXCEPT ![p].pc = "group_action"]
            /\ lastOp' = Called("ShareUnshare:count_documents", "")
    /\ UNCHANGED manager
    /\ ManagerUntouched

\* users.user_group_action(subject_uid, owner_gid, group_action), and the call returns
ShareGroupAction(p) ==
    /\ mngr_calls[p].pc = "group_action"
    /\ manager' = [manager EXCEPT !.owners =
            user_group_action(@, mngr_calls[p].subject_uid,
                              group_action_of(mngr_calls[p].share_action))]
    /\ mngr_calls' = [mngr_calls EXCEPT ![p] = NoShareCall]
    /\ lastOp' = Called("ShareUnshare", "")
    /\ ManagerUntouched

NextShare ==
    \E p \in 1..NProcs :
        \/ \E share_action \in {"share", "unshare"}, subject_uid \in Users :
                ShareStart(p, share_action, subject_uid)
        \/ ShareCount(p)
        \/ ShareGroupAction(p)

SpecShare == InitShare /\ [][NextShare]_vars

-----------------------------------------------------------------------------
(* Managers: assigning a Manager to projects, every datastore operation a step *)

\* projects a Manager can be assigned to
NProjects == 2

Projects == 1..NProjects

\* the id of the Manager in the datastore, and an id no Manager has
ManagerIds == {"manager", "missing"}

\* project_utils.get_admin_group_id(project_id): every project has its own group
get_admin_group_id(project_id) == <<"admin", project_id>>

\* mngr_projects / mngr_user_groups after add or discard, as the sorted lists
\* that are written; a list is known by its set of elements
assign_or_remove(projects, user_groups, project_id, action) ==
    IF action = "assign"
    THEN [projects |-> projects \cup {project_id},
          user_groups |-> user_groups \cup {get_admin_group_id(project_id)}]
    ELSE [projects |-> projects \ {project_id},
          user_groups |-> user_groups \ {get_admin_group_id(project_id)}]

NoAssignCall ==
    [pc |-> "idle", manager_id |-> "", project_id |-> 0, action |-> "",
     projects |-> {}, user_groups |-> {}, result |-> ""]

\* a Manager without projects; every slot makes one api_assign_to_project call
InitAssign ==
    /\ NoJobActivity
    /\ manager = [owners |-> {1}, projects |-> {}, user_groups |-> {}]
    /\ mngr_calls = [p \in 1..NProcs |-> NoAssignCall]

\* api_assign_to_project(manager_id, project_id, action) is called;
\* an action other than 'assign' and 'remove' raises ValueError
AssignStart(p, manager_id, project_id, action) ==
    /\ mngr_calls[p].pc = "idle"
    /\ IF action \notin {"assign", "remove"}
       THEN /\ mngr_calls' = [mngr_calls EXCEPT ![p] =
                    [NoAssignCall EXCEPT !.pc = "returned", !.manager_id = manager_id,
                        !.project_id = project_id, !.action = action,
                        !.result = "ValueError"]]
            /\ lastOp' = [op |-> "AssignToProject", arg |-> "", error |-> TRUE]
       ELSE /\ mngr_calls' = [mngr_calls EXCEPT ![p] =
                    [NoAssignCall EXCEPT !.pc = "find_one", !.manager_id = manager_id,
                        !.project_id = project_id, !.action = action]]
            /\ lastOp' = Called("AssignToProject:call", "")
    /\ UNCHANGED manager
    /\ ManagerUntouched

\* manager_doc = mngr_coll.find_one(...); return False when there is none
AssignFind(p) ==
    /\ mngr_calls[p].pc = "find_one"
    /\ IF mngr_calls[p].manager_id # "manager"
       THEN /\ mngr_calls' = [mngr_calls EXCEPT ![p].pc = "returned",
                                                ![p].result = "False"]
            /\ lastOp' = Called("AssignToProject", "")
       ELSE /\ mngr_calls' = [mngr_calls EXCEPT ![p].pc = "update_one",
                                                ![p].projects = manager.projects,
                                                ![p].user_groups = manager.user_groups]
            /\ lastOp' = Called("AssignToProject:find_one", "")
    /\ UNCHANGED manager
    /\ ManagerUntouched

\* mngr_coll.update_one({'_id': manager_id}, update) with the lists computed from
\* the document that was read; return True
AssignUpdate(p) ==
    /\ mngr_calls[p].pc = "update_one"
    /\ \E update \in {assign_or_remove(mngr_calls[p].projects, mngr_calls[p].user_groups,
                                       mngr_calls[p].project_id, mngr_calls[p].action)} :
        manager' = [manager EXCEPT !.projects = update.projects,
                                   !.user_groups = update.user_groups]
    /\ mngr_calls' = [mngr_calls EXCEPT ![p].pc = "returned", ![p].result = "True"]
    /\ lastOp' = Called("AssignToProject", "")
    /\ ManagerUntouched

NextAssign ==
    \E p \in 1..NProcs :
        \/ \E manager_id \in ManagerIds, project_id \in Projects,
              action \in {"assign", "remove", "share"} :
                AssignStart(p, manager_id, project_id, action)
        \/ AssignFind(p)
        \/ AssignUpdate(p)

SpecAssign == InitAssign /\ [][NextAssign]_vars

-----------------------------------------------------------------------------
(* Managers: authentication tokens of the Manager's service account *)

\* tokens the model lets service.generate_auth_token hand out
MaxTokens == 3

NoTokenCall == [pc |-> "idle", op |-> ""]

\* tokens_coll.delete_many({'user': service_account_id})
delete_many_tokens(tokens) == {}

\* service.generate_auth_token(service_account_id): a token that was never
\* handed out before is stored for the service account; `generated` counts them
generate_auth_token(tokens, generated) ==
    [token |-> generated + 1, tokens |-> tokens \cup {generated + 1}]

\* gen_new_auth_token calls that have not generated their token yet
Generating(calls) ==
    Cardinality({p \in DOMAIN calls : calls[p].op = "gen_new_auth_token"})

\* a Manager whose service account holds the token it was created with (token 0)
InitToken ==
    /\ NoJobActivity
    /\ manager = [owners |-> {1}, projects |-> {}, user_groups |-> {},
                  tokens |-> {0}, generated |-> 0]
    /\ mngr_calls = [p \in 1..NProcs |-> NoTokenCall]

\* gen_new_auth_token(manager_id) or revoke_auth_token(manager_id) is called;
\* revoke_auth_token looks up the service account
TokenStart(p, op) ==
    /\ mngr_calls[p].pc = "idle"
    /\ op = "gen_new_auth_token"
            => manager.generated + Generating(mngr_calls) < MaxTokens
    /\ mngr_calls' = [mngr_calls EXCEPT ![p] = [pc |-> "delete_many", op |-> op]]
    /\ lastOp' = Called("AuthToken:call", "")
    /\ UNCHANGED manager
    /\ ManagerUntouched

\* revoke_auth_token: tokens_coll.delete_many(...); return service_account_id
TokenDeleteMany(p) ==
    /\ mngr_calls[p].pc = "delete_many"
    /\ manager' = [manager EXCEPT !.tokens = delete_many_tokens(@)]
    /\ IF mngr_calls[p].op = "revoke_auth_token"
       THEN /\ mngr_calls' = [mngr_calls EXCEPT ![p] = NoTokenCall]
            /\ lastOp' = Called("RevokeAuthToken", "")
       ELSE /\ mngr_calls' = [mngr_calls EXCEPT ![p].pc = "generate_auth_token"]
            /\ lastOp' = Called("AuthToken:delete_many", "")
    /\ ManagerUntouched

\* gen_new_auth_token: token_info = service.generate_auth_token(service_account_id);
\* return AuthTokenInfo(token=token_info['token'], ...)
TokenGenerate(p) ==
    /\ mngr_calls[p].pc = "generate_auth_token"
    /\ \E token_info \in {generate_auth_token(manager.tokens, manager.generated)} :
        /\ manager' = [manager EXCEPT !.tokens = token_info.tokens,
                                      !.generated = @ + 1]
        /\ lastOp' = Called("GenNewAuthToken", token_info.token)
    /\ mngr_calls' = [mngr_calls EXCEPT ![p] = NoTokenCall]
    /\ ManagerUntouched

NextToken ==
    \E p \in 1..NProcs :
        \/ \E op \in {"gen_new_auth_token", "revoke_auth_token"} : TokenStart(p, op)
        \/ TokenDeleteMany(p)
        \/ TokenGenerate(p)

SpecToken == InitToken /\ [][NextToken]_vars

-----------------------------------------------------------------------------
(* Properties *)

Requested == {"cancel-requested", "fail-requested"}

StatusOf(t) == tasks[t].status

NoRepeat(written) ==
    \A i, k \in DOMAIN written : i # k => written[i] # written[k]

\* C1: every call ends its cascade loop with an empty next status, and the
\* statuses the loop wrote to the job are pairwise different (no cycle).
C1_CascadeTerminates ==
    /\ pending = ""
    /\ NoRepeat(chain)

\* a three-hop cascade: requeued -> queued -> completed
C1_Witness ==
    /\ lastOp.op = "SetJobStatus"
    /\ chain = <<"requeued", "queued", "completed">>
    /\ pending = ""

\* C2: a task-status event delivered again, with the task statuses unchanged and
\* the job already in the resulting status, writes nothing to the job; here for
\* the repeated "completed" event on a completed job whose tasks are all completed.
C2_RedeliveryWritesNothing ==
    ( /\ lastOp.op = "Redelivery"
      /\ lastOp.arg = "completed"
      /\ job.status = "completed"
      /\ \A t \in DOMAIN tasks : StatusOf(t) = "completed" )
    => chain = <<>>

\* C3: while tasks are completed one after the other, "completed" is written to
\* the job not before the last task is completed, and then exactly once, leaving
\* the job "completed".
C3_Convergence ==
    IF \A t \in DOMAIN tasks : StatusOf(t) = "completed"
    THEN job.status = "completed" /\ completed_writes = 1
    ELSE completed_writes = 0

C3_Witness ==
    /\ lastOp.op = "CompleteTask"
    /\ \A t \in DOMAIN tasks : StatusOf(t) = "completed"
    /\ job.status = "completed"
    /\ completed_writes = 1

\* C8: once every concurrent invocation has returned, the job is "completed" only
\* if every task of the job is "completed".
C8_NoIncorrectCompletion ==
    ( /\ \A p \in DOMAIN procs : procs[p].pc = "idle"
      /\ job.status = "completed" )
    => \A t \in DOMAIN tasks : StatusOf(t) = "completed"

Running == {"active", "claimed-by-manager", "soft-failed"}

\* C4: SetJobStatus("cancel-requested") on a job with a task in {active,
\* claimed-by-manager, soft-failed} leaves completed tasks alone, cancels queued
\* tasks, requests cancellation of the running ones, and ends with the job
\* "cancel-requested".
C4_CancellationCompleteness ==
    [][ ( /\ lastOp'.op = "SetJobStatus"
          /\ lastOp'.arg = "cancel-requested"
          /\ \E t \in DOMAIN tasks : StatusOf(t) \in Running )
        => /\ job'.status = "cancel-requested"
           /\ DOMAIN tasks' = DOMAIN tasks
           /\ \A t \in DOMAIN tasks :
                /\ StatusOf(t) = "completed" => tasks'[t] = tasks[t]
                /\ StatusOf(t) = "queued" => tasks'[t].status = "canceled"
                /\ StatusOf(t) \in Running => tasks'[t].status = "cancel-requested"
      ]_vars

\* the job of the example: a completed, a canceled (was queued) and a
\* cancel-requested (was running) task
C4_Witness ==
    /\ lastOp = Called("SetJobStatus", "cancel-requested")
    /\ job.status = "cancel-requested"
    /\ chain = <<"cancel-requested">>
    /\ \E a, b, c \in DOMAIN tasks :
        /\ StatusOf(a) = "completed"
        /\ StatusOf(b) = "canceled"
        /\ StatusOf(c) = "cancel-requested"

\* C5: on a "canceled" task event, a job in cancel-requested (fail-requested) is
\* left as it is while a task is still cancel-requested, and is moved to canceled
\* (failed) when none is.
C5_CancellationClosure ==
    [][ ( /\ lastOp'.op = "OnTaskStatusChanged"
          /\ lastOp'.arg = "canceled"
          /\ job.status \in Requested )
        => IF \E t \in DOMAIN tasks : StatusOf(t) = "cancel-requested"
           THEN job' = job /\ tasks' = tasks /\ chain' = <<>>
           ELSE job'.status =
                    (IF job.status = "cancel-requested" THEN "canceled" ELSE "failed")
      ]_vars

\* the last cancel-requested task of a fail-requested job reported "canceled"
C5_Witness ==
    /\ lastOp = Called("OnTaskStatusChanged", "canceled")
    /\ chain = <<"failed">>
    /\ job.status = "failed"
    /\ \E t \in DOMAIN tasks : StatusOf(t) = "canceled"

C7_NoCancelRequestedLeft ==
    job.status \notin Requested
        => \A t \in DOMAIN tasks : StatusOf(t) # "cancel-requested"

\* C7, amended: when a task-status event moves the job out of {cancel-requested,
\* fail-requested} to canceled or completed, no task is cancel-requested.
C7_EventLeavesNoCancelRequested ==
    [][ ( /\ lastOp'.op = "OnTaskStatusChanged"
          /\ job.status \in Requested
          /\ job'.status \in {"canceled", "completed"} )
        => \A t \in DOMAIN tasks' : tasks'[t].status # "cancel-requested"
      ]_vars

\* a cancel-requested job became canceled on a "canceled" event
C7_Witness ==
    /\ lastOp = Called("OnTaskStatusChanged", "canceled")
    /\ chain = <<"canceled">>
    /\ job.status = "canceled"
    /\ \A t \in DOMAIN tasks : StatusOf(t) \in {"canceled", "completed"}

\* C9: SetJobStatus("requeued") on an under-construction job changes no task:
\* neither its status nor its failed_by_workers marker.
C9_RequeueSkip ==
    [][ ( /\ lastOp'.op = "SetJobStatus"
          /\ lastOp'.arg = "requeued"
          /\ job.status = "under-construction" )
        => tasks' = tasks
      ]_vars

\* an under-construction job was requeued: the call stopped after one write, and
\* a task that is not queued and a marked task are still there
C9_Witness ==
    /\ lastOp = Called("SetJobStatus", "requeued")
    /\ chain = <<"requeued">>
    /\ job.status = "requeued"
    /\ \E t \in DOMAIN tasks : StatusOf(t) = "failed" /\ tasks[t].failed_by_workers

\* C10: ArchiveJob on an archiving or archived job raises and changes nothing:
\* not the job, not a task, and nothing is handed to the runner.
C10_ArchivalGuard ==
    [][ ( /\ lastOp'.op = "ArchiveJob"
          /\ job.status \in {"archiving", "archived"} )
        => /\ lastOp'.error
           /\ job' = job
           /\ tasks' = tasks
           /\ archival' = archival
      ]_vars

\* a second ArchiveJob failed while the first request is still with the runner
C10_Witness ==
    /\ lastOp.op = "ArchiveJob"
    /\ lastOp.error
    /\ job.status = "archiving"
    /\ job.pre_archive_status = "completed"
    /\ archival = 1

\* C11: archive_job on a job that is neither archiving nor archived first writes
\* the job's status to pre_archive_status, then sets the job to "archiving" with
\* no further transition and no task changed, and only then hands one archival
\* request to the runner; no other step of the call hands one.
C11_ArchiveOrder ==
    [][ /\ (archive_call.pc = "idle" /\ archive_call'.pc = "record")
            => /\ job.status \notin {"archiving", "archived"}
               /\ archive_call'.job_status = job.status
               /\ UNCHANGED <<job, tasks, archival>>
        /\ (archive_call.pc = "record" /\ archive_call'.pc = "set_status")
            => /\ job'.pre_archive_status = archive_call.job_status
               /\ job'.status = job.status
               /\ UNCHANGED <<tasks, archival>>
        /\ (archive_call.pc = "set_status" /\ archive_call'.pc = "delay")
            => /\ job.pre_archive_status = job.status
               /\ job'.status = "archiving"
               /\ job'.pre_archive_status = job.pre_archive_status
               /\ chain' = <<"archiving">>
               /\ UNCHANGED <<tasks, archival>>
        /\ (archive_call.pc = "delay" /\ archive_call'.pc = "idle")
            => /\ job.status = "archiving"
               /\ job.pre_archive_status = archive_call.job_status
               /\ archival' = archival + 1
               /\ UNCHANGED <<job, tasks>>
        /\ archival' > archival => archive_call.pc = "delay"
      ]_vars

\* a completed job was archived: the call returned, the request is with the runner
C11_Witness ==
    /\ lastOp.op = "ArchiveJob"
    /\ ~lastOp.error
    /\ archive_call.pc = "idle"
    /\ archival = 1
    /\ job.status = "archiving"
    /\ job.pre_archive_status = "completed"
    /\ \E t \in DOMAIN tasks : StatusOf(t) = "completed"

\* C12: api_set_job_priority with the priority the job already has writes neither
\* the job document nor any task document: priority, job_priority, _updated and
\* _etag are all as before.
C12_SamePriorityNoOp ==
    [][ ( /\ lastOp'.op = "SetJobPriority"
          /\ priority[lastOp'.arg[1]].priority = lastOp'.arg[2] )
        => /\ priority' = priority
           /\ task_priority' = task_priority
      ]_vars

\* a call with the job's priority came back, and nothing was ever written
C12_Witness ==
    /\ lastOp.op = "SetJobPriority"
    /\ priority[lastOp.arg[1]].priority = lastOp.arg[2]
    /\ \A j \in JobIds : priority[j].stamp = 0
    /\ \A t \in DOMAIN task_priority : task_priority[t].stamp = 0
    /\ \E t \in DOMAIN task_priority : task_priority[t].job = lastOp.arg[1]

\* C13: after api_set_job_priority(job, p) with p different from the job's
\* priority, the job's priority is p, every task of that job has job_priority p,
\* and the other jobs and their tasks are as before.
C13_NewPriorityMirrored ==
    [][ ( /\ lastOp'.op = "SetJobPriority"
          /\ priority[lastOp'.arg[1]].priority # lastOp'.arg[2] )
        => /\ priority'[lastOp'.arg[1]].priority = lastOp'.arg[2]
           /\ \A j \in JobIds \ {lastOp'.arg[1]} : priority'[j] = priority[j]
           /\ \A t \in DOMAIN task_priority :
                IF task_priority[t].job = lastOp'.arg[1]
                THEN /\ task_priority'[t].job = task_priority[t].job
                     /\ task_priority'[t].job_priority = lastOp'.arg[2]
                ELSE task_priority'[t] = task_priority[t]
      ]_vars

\* a job with two tasks got a new priority; a task of another job kept a different one
C13_Witness ==
    /\ lastOp.op = "SetJobPriority"
    /\ priority[lastOp.arg[1]] = [priority |-> lastOp.arg[2], stamp |-> 1]
    /\ Cardinality({t \in DOMAIN task_priority :
                        /\ task_priority[t].job = lastOp.arg[1]
                        /\ task_priority[t].job_priority = lastOp.arg[2]
                        /\ task_priority[t].stamp = 1}) = 2
    /\ \E t \in DOMAIN task_priority :
        /\ task_priority[t].job # lastOp.arg[1]
        /\ task_priority[t].job_priority # lastOp.arg[2]
        /\ task_priority[t].stamp = 0

\* C14: once every concurrent api_set_job_priority call has returned, every
\* task's job_priority equals the priority of its job.
C14_MirroredWhenQuiet ==
    (\A p \in DOMAIN prio_calls : prio_calls[p].pc = "idle")
        => \A t \in DOMAIN task_priority :
            task_priority[t].job_priority = priority[task_priority[t].job].priority

\* C15: when the compiler raises during api_construct_job, the job was first set
\* to "under-construction" and ends "construction-failed" with a status reason
\* from which the compiler's error can be read, and the call returns normally;
\* when the job does not exist the call raises and nothing is written.
C15_ConstructionFailure ==
    [][ lastOp'.op = "ConstructJob" =>
            /\ ~lastOp'.arg[1] =>
                    /\ lastOp'.error
                    /\ chain' = <<>>
                    /\ UNCHANGED <<job, tasks, settings>>
            /\ (lastOp'.arg[1] /\ lastOp'.arg[3] \in CompileErrors) =>
                    /\ ~lastOp'.error
                    /\ chain' = <<"under-construction", "construction-failed">>
                    /\ job'.status = "construction-failed"
                    /\ job'.status_reason =
                            compilation_failed(lastOp'.arg[2], lastOp'.arg[3])
                    /\ \A reason \in Reasons, ex \in CompileErrors :
                            compilation_failed(reason, ex) = job'.status_reason
                                => ex = lastOp'.arg[3]
      ]_vars

\* the compiler raised while tasks of the job exist; the call returned normally
C15_Witness ==
    /\ lastOp.op = "ConstructJob"
    /\ lastOp.arg[1]
    /\ lastOp.arg[3] = "missing setting"
    /\ ~lastOp.error
    /\ job.status = "construction-failed"
    /\ job.status_reason = compilation_failed(lastOp.arg[2], "missing setting")
    /\ Len(tasks) > 0

\* C16: SetJobStatus("cancel-requested") (resp. "fail-requested") on a job with no
\* task in {active, claimed-by-manager, soft-failed} ends the same call with the
\* job "canceled" (resp. "failed"); when "failed" is requested, or a task was
\* moved to "cancel-requested", the requested status is the only one written.
C16_CancelTasksShortcut ==
    [][ ( /\ lastOp'.op = "SetJobStatus"
          /\ lastOp'.arg \in {"cancel-requested", "fail-requested", "failed"} )
        => IF /\ lastOp'.arg \in Requested
              /\ \A t \in DOMAIN tasks : StatusOf(t) \notin Running
           THEN /\ chain' = <<lastOp'.arg,
                              IF lastOp'.arg = "cancel-requested"
                              THEN "canceled" ELSE "failed">>
                /\ job'.status = chain'[2]
                /\ pending' = ""
           ELSE /\ chain' = <<lastOp'.arg>>
                /\ job'.status = lastOp'.arg
                /\ pending' = ""
      ]_vars

\* a fail request on a job with nothing running: the job went on to "failed" in
\* the same call, its queued task was canceled
C16_Witness ==
    /\ lastOp.op = "SetJobStatus"
    /\ lastOp.arg = "fail-requested"
    /\ chain = <<"fail-requested", "failed">>
    /\ job.status = "failed"
    /\ \E t \in DOMAIN tasks : StatusOf(t) = "canceled"
    /\ \A t \in DOMAIN tasks : StatusOf(t) # "cancel-requested"

\* C17: whenever a call sets the job to "queued", the call ends with the job
\* "completed" (written right after "queued") if every task of the job is
\* completed, a job without tasks included, and with the job "queued" otherwise;
\* the tasks are those the requeue left, or those before the call when the job
\* was queued directly or by a task event.
C17_CheckCompletion ==
    [][ (\E i \in DOMAIN chain' : chain'[i] = "queued")
        => LET i == CHOOSE i \in DOMAIN chain' : chain'[i] = "queued"
           IN  /\ IF \A t \in DOMAIN tasks' : tasks'[t].status = "completed"
                  THEN /\ job'.status = "completed"
                       /\ Len(chain') = i + 1
                       /\ chain'[i + 1] = "completed"
                  ELSE /\ job'.status = "queued"
                       /\ Len(chain') = i
               /\ pending' = ""
               /\ IF lastOp'.op = "SetJobStatus" /\ lastOp'.arg = "requeued"
                  THEN tasks' = do_requeue(tasks, job.status, "requeued").tasks
                  ELSE tasks' = tasks
      ]_vars

\* a job without tasks was queued and went on to "completed" in the same call
C17_Witness ==
    /\ lastOp.op = "SetJobStatus"
    /\ lastOp.arg = "queued"
    /\ tasks = <<>>
    /\ chain = <<"queued", "completed">>
    /\ job.status = "completed"

RequeuedTask == [status |-> "queued", failed_by_workers |-> FALSE]

\* C18, as stated: when a job is requeued from an old status other than
\* "under-construction", completed tasks are left untouched when the old status
\* was "completed", and for every other old status every task except the
\* cancel-requested ones, completed tasks included, is set to "queued".
C18_RequeueSelectionAsStated ==
    [][ ( /\ lastOp'.op = "SetJobStatus"
          /\ lastOp'.arg = "requeued"
          /\ job.status # "under-construction" )
        => \A t \in DOMAIN tasks :
            IF job.status = "completed"
            THEN StatusOf(t) = "completed" => tasks'[t] = tasks[t]
            ELSE StatusOf(t) # "cancel-requested" => tasks'[t].status = "queued"
      ]_vars

\* C18, amended: when a job is requeued from "completed", every task except the
\* cancel-requested ones, completed tasks included, is set to "queued"; from
\* every other old status except "under-construction" the completed tasks are
\* left untouched and every other task except the cancel-requested ones is set
\* to "queued".
C18_RequeueSelection ==
    [][ ( /\ lastOp'.op = "SetJobStatus"
          /\ lastOp'.arg = "requeued"
          /\ job.status # "under-construction" )
        => \A t \in DOMAIN tasks :
            IF job.status = "completed"
            THEN StatusOf(t) # "cancel-requested" => tasks'[t].status = "queued"
            ELSE /\ StatusOf(t) = "completed" => tasks'[t] = tasks[t]
                 /\ StatusOf(t) \notin {"completed", "cancel-requested"}
                        => tasks'[t].status = "queued"
      ]_vars

\* a requeue that kept a completed task and queued the other one: the job stays queued
C18_Witness ==
    /\ lastOp.op = "SetJobStatus"
    /\ lastOp.arg = "requeued"
    /\ chain = <<"requeued", "queued">>
    /\ job.status = "queued"
    /\ \E t \in DOMAIN tasks : StatusOf(t) = "completed"
    /\ \E t \in DOMAIN tasks : tasks[t] = RequeuedTask

\* C19: SetJobStatus("requeued"), from every old status, leaves each
\* cancel-requested task as it is, failed_by_workers included; every task it
\* changes ends "queued" with failed_by_workers cleared, and unless the job was
\* under construction that is every task not completed and not cancel-requested.
C19_RequeueFrame ==
    [][ ( /\ lastOp'.op = "SetJobStatus"
          /\ lastOp'.arg = "requeued" )
        => /\ DOMAIN tasks' = DOMAIN tasks
           /\ \A t \in DOMAIN tasks :
                /\ StatusOf(t) = "cancel-requested" => tasks'[t] = tasks[t]
                /\ tasks'[t] # tasks[t] => tasks'[t] = RequeuedTask
                /\ tasks'[t].status = "queued" /\ StatusOf(t) # "queued"
                        => ~tasks'[t].failed_by_workers
                /\ ( /\ job.status # "under-construction"
                     /\ StatusOf(t) \notin {"completed", "cancel-requested"} )
                        => tasks'[t] = RequeuedTask
      ]_vars

\* after a requeue a cancel-requested task still carries its marker, next to a
\* task that was queued with the marker cleared
C19_Witness ==
    /\ lastOp.op = "SetJobStatus"
    /\ lastOp.arg = "requeued"
    /\ chain = <<"requeued", "queued">>
    /\ \E t \in DOMAIN tasks :
        tasks[t] = [status |-> "cancel-requested", failed_by_workers |-> TRUE]
    /\ \E t \in DOMAIN tasks : tasks[t] = RequeuedTask

\* C20: when a SetJobStatus call has returned the job's status is never
\* "requeued", and after a requeue request it is "queued" or "completed".
C20_RequeuedIsTransient ==
    lastOp.op = "SetJobStatus"
        => /\ job.status # "requeued"
           /\ lastOp.arg = "requeued" => job.status \in {"queued", "completed"}

\* C21: between calls, a job whose status is "cancel-requested" or
\* "fail-requested" has at least one task in status "cancel-requested",
\* whatever the cancel-requested tasks have reported.
C21_RequestedHasPendingTask ==
    job.status \in Requested
        => \E t \in DOMAIN tasks : StatusOf(t) = "cancel-requested"

\* C22: on a task event "active", "processing" or "soft-failed" a job that is
\* active, fail-requested or cancel-requested is left as it is, a job in any
\* other status is set to "active" and nothing else; no task is modified.
C22_RunningTaskActivatesJob ==
    [][ ( /\ lastOp'.op = "OnTaskStatusChanged"
          /\ lastOp'.arg \in {"active", "processing", "soft-failed"} )
        => /\ tasks' = tasks
           /\ IF job.status \in {"active", "fail-requested", "cancel-requested"}
              THEN job' = job /\ chain' = <<>>
              ELSE /\ job' = [job EXCEPT !.status = "active"]
                   /\ chain' = <<"active">>
      ]_vars

\* a "processing" event made a canceled job active
C22_Witness ==
    /\ lastOp.op = "OnTaskStatusChanged"
    /\ lastOp.arg = "processing"
    /\ chain = <<"active">>
    /\ job.status = "active"
    /\ \E t \in DOMAIN tasks : StatusOf(t) = "canceled"

C24_QueuedTaskRequeuesJob ==
    [][ ( /\ lastOp'.op = "OnTaskStatusChanged"
          /\ lastOp'.arg = "queued" )
        => /\ tasks' = tasks
           /\ IF job.status = "completed"
              THEN /\ chain' # <<>>
                   /\ chain'[1] = "queued"
                   /\ (\E t \in DOMAIN tasks : StatusOf(t) = "queued")
                        => /\ chain' = <<"queued">>
                           /\ job' = [job EXCEPT !.status = "queued"]
              ELSE job' = job /\ chain' = <<>>
      ]_vars

\* a completed task of a job was queued again and the job followed
C24_Witness ==
    /\ lastOp.op = "OnTaskStatusChanged"
    /\ lastOp.arg = "queued"
    /\ chain = <<"queued">>
    /\ job.status = "queued"
    /\ \E t \in DOMAIN tasks : StatusOf(t) = "queued"
    /\ \E t \in DOMAIN tasks : StatusOf(t) = "completed"

\* C25: a task event "cancel-requested", a task event "canceled" while the job
\* is neither cancel-requested nor fail-requested, and a task event with a status
\* outside the enumeration leave the job and every task unchanged, write nothing
\* and raise no error.
C25_EventsWithoutEffect ==
    [][ ( /\ lastOp'.op = "OnTaskStatusChanged"
          /\ \/ lastOp'.arg = "cancel-requested"
             \/ lastOp'.arg = "canceled" /\ job.status \notin Requested
             \/ lastOp'.arg \notin TaskStatuses )
        => /\ job' = job
           /\ tasks' = tasks
           /\ chain' = <<>>
           /\ ~lastOp'.error
      ]_vars

\* a "canceled" event on a queued job whose tasks are all canceled: nothing written
C25_Witness ==
    /\ lastOp.op = "OnTaskStatusChanged"
    /\ lastOp.arg = "canceled"
    /\ ~lastOp.error
    /\ chain = <<>>
    /\ job.status = "queued"
    /\ \A t \in DOMAIN tasks : StatusOf(t) = "canceled"

\* C26: an api_set_job_status call with a reason ends with the job's
\* status_reason equal to that reason, however many statuses the cascade wrote;
\* a call without a reason leaves the job's status_reason as it was.
C26_ReasonOnFirstHop ==
    [][ lastOp'.op = "SetJobStatus"
        => /\ job'.status_reason =
                IF lastOp'.arg[2] # "" THEN lastOp'.arg[2] ELSE job.status_reason
           /\ job'.status = chain'[Len(chain')]
      ]_vars

\* a cancel request with a reason on a job that had another one: two statuses
\* were written and the new reason is on the job
C26_Witness ==
    /\ lastOp.op = "SetJobStatus"
    /\ lastOp.arg = <<"cancel-requested", UserReason>>
    /\ chain = <<"cancel-requested", "canceled">>
    /\ job.status = "canceled"
    /\ job.status_reason = UserReason

\* C27: after api_set_job_status to "cancel-requested", "fail-requested" or
\* "failed" has returned, every task is completed, failed, canceled or
\* cancel-requested.
C27_NoRunnableTaskLeft ==
    ( /\ lastOp.op = "SetJobStatus"
      /\ lastOp.arg \in {"cancel-requested", "fail-requested", "failed"} )
    => \A t \in DOMAIN tasks :
        StatusOf(t) \in {"completed", "failed", "canceled", "cancel-requested"}

\* C28: a task-status event on a job that is archiving or archived leaves the
\* job status as it is, for every new task status.
C28_EventKeepsArchived ==
    [][ ( /\ lastOp'.op = "OnTaskStatusChanged"
          /\ job.status \in ARCHIVE_JOB_STATES )
        => job'.status = job.status
      ]_vars

\* C29: under every interleaving of share_unshare_manager calls the owner group
\* of the Manager keeps at least one member.
C29_NeverOwnerless == manager.owners # {}

\* the documents that the calls of the slots ps give when they run one after
\* the other, in any order, on the document doc
RECURSIVE SerialOutcomes(_, _)
SerialOutcomes(ps, doc) ==
    IF ps = {}
    THEN {doc}
    ELSE UNION { SerialOutcomes(ps \ {p},
                    assign_or_remove(doc.projects, doc.user_groups,
                                     mngr_calls[p].project_id, mngr_calls[p].action))
                 : p \in ps }

\* C30: once all api_assign_to_project calls have returned, the Manager's
\* projects and user_groups are what the calls that returned True give in some
\* serial order, starting from a Manager without projects.
C30_AssignSerializable ==
    (\A p \in DOMAIN mngr_calls : mngr_calls[p].pc = "returned")
        => [projects |-> manager.projects, user_groups |-> manager.user_groups]
            \in SerialOutcomes(
                    {p \in DOMAIN mngr_calls : mngr_calls[p].result = "True"},
                    [projects |-> {}, user_groups |-> {}])

\* C31: once every gen_new_auth_token and revoke_auth_token call has returned,
\* the Manager's service account holds at most one token, and when the call
\* that returned last is a gen_new_auth_token it holds exactly the token that
\* call returned.
C31_AtMostOneToken ==
    (\A p \in DOMAIN mngr_calls : mngr_calls[p].pc = "idle")
        => /\ Cardinality(manager.tokens) <= 1
           /\ lastOp.op = "GenNewAuthToken" => manager.tokens = {lastOp.arg}

====
